---- MODULE Spec2Model ----
(***************************************************************************)
(* Model of signature/v1/hmac.go: the Signer, its canonical string         *)
(* (buildSignatureString, valueToString) and Sign / Verify.                *)
(*                                                                         *)
(* Go strings are sequences of bytes (their UTF-8 code units), so that     *)
(* sort.Strings, the '&' and '=' separators and the hexadecimal alphabet   *)
(* are modelled by what they do to bytes.  A Go `any` value is a record    *)
(* [type, str, num]: its dynamic type, its text (string kinds) and its     *)
(* number (numeric kinds; a bool is 0 or 1; a float is counted in tenths). *)
(***************************************************************************)
EXTENDS Integers, Sequences, FiniteSets, TLC

(***************************************************************************)
(* Bounds of the model.                                                    *)
(***************************************************************************)
\* the integers a mapping holds are 0..MaxInt
MaxInt == 1

(***************************************************************************)
(* Byte strings.                                                           *)
(***************************************************************************)
\* the separators written by buildSignatureString
Amp == 38
Equals == 61
\* sha256.Size: the length in bytes of an HMAC-SHA256 tag
DigestSize == 32

Min(a, b) == IF a < b THEN a ELSE b

\* Go's < on strings: byte-wise lexicographic order, a proper prefix first
RECURSIVE StrLess(_, _)
StrLess(a, b) ==
    IF b = <<>> THEN FALSE
    ELSE IF a = <<>> THEN TRUE
    ELSE IF Head(a) # Head(b) THEN Head(a) < Head(b)
    ELSE StrLess(Tail(a), Tail(b))

\* the set of all orderings (sequences without repetition) of a finite set
RECURSIVE Perms(_)
Perms(S) ==
    IF S = {} THEN { <<>> }
    ELSE UNION { { <<x>> \o p : p \in Perms(S \ {x}) } : x \in S }

\* sort.Strings left the slice as it found it (a forgotten or no-op sort)
SortStringsUnsorted(keys) == keys

\* sort.Strings(keys): the keys in ascending byte-wise order (insertion into
\* an ordered prefix; the keys of a map are distinct, so the order is unique)
RECURSIVE InsertSorted(_, _)
InsertSorted(k, sorted) ==
    IF sorted = <<>> THEN <<k>>
    ELSE IF StrLess(k, Head(sorted)) THEN <<k>> \o sorted
    ELSE <<Head(sorted)>> \o InsertSorted(k, Tail(sorted))

RECURSIVE SortStringsFrom(_, _)
SortStringsFrom(keys, sorted) ==
    IF keys = <<>> THEN sorted
    ELSE SortStringsFrom(Tail(keys), InsertSorted(Head(keys), sorted))

SortStrings(keys) == SortStringsFrom(keys, <<>>)

(***************************************************************************)
(* Values of type any, and their conversion to text.                       *)
(***************************************************************************)
Value(t, s, n) == [type |-> t, str |-> s, num |-> n]
NilValue == Value("nil", <<>>, 0)
StringValue(s) == Value("string", s, 0)
NumValue(t, n) == Value(t, <<>>, n)
BoolValue(b) == Value("bool", <<>>, IF b THEN 1 ELSE 0)
\* a value of a defined string type (type Status string): not a `string`
NamedValue(s) == Value("named", s, 0)

\* strconv.FormatUint(n, 10)
RECURSIVE FormatUint(_)
FormatUint(n) ==
    IF n < 10 THEN << 48 + n >>
    ELSE FormatUint(n \div 10) \o << 48 + (n % 10) >>

\* strconv.FormatInt(n, 10) and strconv.Itoa(n)
FormatInt(n) == IF n < 0 THEN <<45>> \o FormatUint(0 - n) ELSE FormatUint(n)

\* strconv.FormatFloat(f, 'f', -1, bits) of the float tenths/10: the shortest
\* decimal text that reads back as the same float, without exponent
FormatFloat(tenths) ==
    LET mag == IF tenths < 0 THEN 0 - tenths ELSE tenths
        sign == IF tenths < 0 THEN <<45>> ELSE <<>>
    IN  sign \o FormatUint(mag \div 10) \o
        (IF mag % 10 = 0 THEN <<>> ELSE <<46, 48 + (mag % 10)>>)

\* strconv.FormatBool
FormatBool(n) == IF n = 1 THEN <<116, 114, 117, 101>> ELSE <<102, 97, 108, 115, 101>>

\* fmt.Sprintf("%v", val) of the kinds the type switch does not list
Sprintv(v) == IF v.type = "named" THEN v.str ELSE FormatInt(v.num)

valueToString(v) ==
    IF v.type = "nil" THEN <<>>
    ELSE CASE v.type = "string" -> v.str
           [] v.type = "int" -> FormatInt(v.num)
           [] v.type = "int32" -> FormatInt(v.num)
           [] v.type = "int64" -> FormatInt(v.num)
           [] v.type = "uint" -> FormatUint(v.num)
           [] v.type = "uint32" -> FormatUint(v.num)
           [] v.type = "uint64" -> FormatUint(v.num)
           [] v.type = "float32" -> FormatFloat(v.num)
           [] v.type = "float64" -> FormatFloat(v.num)
           [] v.type = "bool" -> FormatBool(v.num)
           [] OTHER -> Sprintv(v)

(***************************************************************************)
(* The canonical string.                                                   *)
(***************************************************************************)
\* the test asserted the value to be a string and skipped every other kind
IsEmptyValueNonString(v) == v.type # "string" \/ v.str = <<>>

\* the test took every zero value for empty (nil, "", 0 and false)
IsEmptyValueOrZero(v) ==
    \/ v.type = "nil"
    \/ (v.type \in {"string", "named"} /\ v.str = <<>>)
    \/ (v.type \notin {"string", "named"} /\ v.num = 0)

\* v == nil || v == "" (the interface v equals the string "" only when its
\* dynamic type is string)
IsEmptyValue(v) == v.type = "nil" \/ (v.type = "string" /\ v.str = <<>>)

\* first loop: the keys of the non-empty values, in the order `order` in
\* which the range loop visits the map
RECURSIVE CollectKeys(_, _)
CollectKeys(m, order) ==
    IF order = <<>> THEN <<>>
    ELSE (IF IsEmptyValue(m[Head(order)]) THEN <<>> ELSE << Head(order) >>)
         \o CollectKeys(m, Tail(order))

\* the format was given the key twice
PairKeyTwice(k, strValue) == k \o <<Equals>> \o k

\* fmt.Sprintf("%s=%s", k, strValue)
Pair(k, strValue) == k \o <<Equals>> \o strValue

\* params[k]: the value of k, nil when the map has no such key
MapGet(m, k) == IF k \in DOMAIN m THEN m[k] ELSE NilValue

\* second loop: the pairs of the sorted keys, skipping empty conversions
RECURSIVE BuildPairs(_, _)
BuildPairs(m, keys) ==
    IF keys = <<>> THEN <<>>
    ELSE LET strValue == valueToString(MapGet(m, Head(keys)))
         IN  (IF strValue = <<>> THEN <<>> ELSE << Pair(Head(keys), strValue) >>)
             \o BuildPairs(m, Tail(keys))

\* the join wrote the separator after every pair, the last one included
RECURSIVE JoinPairsTrailing(_, _, _)
JoinPairsTrailing(pairs, i, result) ==
    IF i > Len(pairs) THEN result
    ELSE JoinPairsTrailing(pairs, i + 1, result \o pairs[i] \o <<Amp>>)

\* the join assigned each pair to the result instead of appending it
JoinPairsLast(pairs, i, result) ==
    IF pairs = <<>> THEN result ELSE pairs[Len(pairs)]

\* third loop: the pairs joined by "&"
RECURSIVE JoinPairs(_, _, _)
JoinPairs(pairs, i, result) ==
    IF i > Len(pairs) THEN result
    ELSE JoinPairs(pairs, i + 1,
                   (IF i > 1 THEN result \o <<Amp>> ELSE result) \o pairs[i])

\* the canonical string with neither filter: every key of the map is written
buildSignatureStringKeepEmpty(m, order) ==
    LET keys == SortStrings(order)
        pairs == [ i \in 1..Len(keys) |-> Pair(keys[i], valueToString(m[keys[i]])) ]
    IN  JoinPairs(pairs, 1, <<>>)

buildSignatureString(m, order) ==
    LET keys == SortStrings(CollectKeys(m, order))
        pairs == BuildPairs(m, keys)
    IN  JoinPairs(pairs, 1, <<>>)

(***************************************************************************)
(* HMAC-SHA256, hexadecimal encoding and constant-time comparison.         *)
(***************************************************************************)
\* the input of the keyed hash, framed by the lengths of key and message
Frame(key, msg) == << Len(key), Len(msg) >> \o key \o msg

\* the sum of the bytes of frame at the positions i, i + DigestSize, ...
RECURSIVE FoldAt(_, _)
FoldAt(frame, i) ==
    IF i > Len(frame) THEN 0 ELSE frame[i] + FoldAt(frame, i + DigestSize)

\* hmac.New(sha256.New, key); h.Write(msg); h.Sum(nil): a tag of DigestSize
\* bytes that is a function of key and message only.  HMAC-SHA256 is taken to
\* be collision-free: the stand-in tag carries the framed input, one byte per
\* position under a bijection of 0..255, so that distinct (key, message) of
\* framed length up to DigestSize have distinct tags.
HmacSha256(key, msg) ==
    LET frame == Frame(key, msg)
    IN  [ i \in 1..DigestSize |-> (7 * FoldAt(frame, i) + 13 * i) % 256 ]

\* hex.EncodeToString wrote the digits A-F in upper case
HexDigitsUpper == << 48, 49, 50, 51, 52, 53, 54, 55, 56, 57,
                     65, 66, 67, 68, 69, 70 >>

\* the table "0123456789abcdef" of encoding/hex
HexDigits == << 48, 49, 50, 51, 52, 53, 54, 55, 56, 57,
                97, 98, 99, 100, 101, 102 >>

\* hex.EncodeToString(src): two digits per byte, high nibble first
HexEncode(src) ==
    [ j \in 1..(2 * Len(src)) |->
        LET b == src[(j + 1) \div 2]
        IN  IF j % 2 = 1 THEN HexDigits[(b \div 16) + 1]
            ELSE HexDigits[(b % 16) + 1] ]

\* hmac.Equal stopped one byte short of the end
HmacEqualButLast(a, b) == Len(a) = Len(b) /\ \A i \in 1..(Len(a) - 1) : a[i] = b[i]

\* hmac.Equal(a, b), i.e. subtle.ConstantTimeCompare(a, b) == 1: equal
\* lengths and no differing byte
HmacEqual(a, b) == Len(a) = Len(b) /\ \A i \in 1..Len(a) : a[i] = b[i]

(***************************************************************************)
(* The Signer and its two operations, as functions of their arguments and  *)
(* of the order in which the range loop visits the map.                    *)
(***************************************************************************)
NoError == "<nil>"
ErrNilParams == "params cannot be nil"

\* a map[string]any argument: the nil map, or a map with entries m
NilParams == [isNil |-> TRUE, m |-> <<>>]
MapParams(m) == [isNil |-> FALSE, m |-> m]

NewSigner(secret) == [secret |-> secret]

\* Sign took the empty map for the nil map (len(params) == 0)
SignRejectEmpty(s, params, order) ==
    IF params.isNil \/ DOMAIN params.m = {} THEN [sig |-> <<>>, err |-> ErrNilParams]
    ELSE LET sigString == buildSignatureString(params.m, order)
             h == HmacSha256(s.secret, sigString)
         IN  [sig |-> HexEncode(h), err |-> NoError]

Sign(s, params, order) ==
    IF params.isNil THEN [sig |-> <<>>, err |-> ErrNilParams]
    ELSE LET sigString == buildSignatureString(params.m, order)
             h == HmacSha256(s.secret, sigString)
         IN  [sig |-> HexEncode(h), err |-> NoError]

\* Verify reported a mismatch as an error
VerifyErrOnMismatch(s, params, signature, order) ==
    LET expected == Sign(s, params, order)
    IN  IF expected.err # NoError THEN [ok |-> FALSE, err |-> expected.err]
        ELSE IF HmacEqual(expected.sig, signature) THEN [ok |-> TRUE, err |-> NoError]
        ELSE [ok |-> FALSE, err |-> "signature mismatch"]

Verify(s, params, signature, order) ==
    LET expected == Sign(s, params, order)
    IN  IF expected.err # NoError THEN [ok |-> FALSE, err |-> expected.err]
        ELSE [ok |-> HmacEqual(expected.sig, signature), err |-> NoError]

(***************************************************************************)
(* The inputs of the model: keys "B", "a", "b"; secrets "k", "s2"; values  *)
(* of the kinds of the type switch.                                        *)
(***************************************************************************)
Keys == { <<66>>, <<97>>, <<98>> }
Secrets == { <<107>>, <<115, 50>> }
\* nil, "", "1", "&=" and the ints 0..MaxInt
Values ==
    { NilValue, StringValue(<<>>), StringValue(<<49>>), StringValue(<<Amp, Equals>>) }
    \cup { NumValue("int", n) : n \in 0..MaxInt }

\* the string "invalid-signature" of the tests
InvalidSignature ==
    << 105, 110, 118, 97, 108, 105, 100, 45,
       115, 105, 103, 110, 97, 116, 117, 114, 101 >>

\* m with the entry k -> v added or overwritten (m[k] = v)
MapPut(m, k, v) == [ x \in (DOMAIN m) \cup {k} |-> IF x = k THEN v ELSE m[x] ]
\* delete(m, k)
MapDelete(m, k) == [ x \in (DOMAIN m) \ {k} |-> m[x] ]

\* the mappings that differ from m in the entry of at most one key
Neighbours(m) ==
    { m } \cup { MapDelete(m, k) : k \in DOMAIN m }
          \cup { MapPut(m, k, v) : k \in Keys, v \in Values }

\* sig with the character at position i replaced by c
ReplaceChar(sig, i, c) == [ sig EXCEPT ![i] = c ]
\* a character different from c: the next one, or '0' after 'f'
OtherChar(c) == IF c = 102 THEN 48 ELSE c + 1
\* sig with its digits a-f written in upper case
UpperCase(sig) ==
    [ i \in 1..Len(sig) |-> IF sig[i] >= 97 /\ sig[i] <= 102 THEN sig[i] - 32 ELSE sig[i] ]

\* the positions at which a supplied signature is damaged
FlipPositions == { 1, 2 * DigestSize }

\* the strings a caller supplies to Verify when the signature of its mapping
\* is good: good itself and damaged copies of it
SuppliedSignatures(good) ==
    { good, UpperCase(good), <<>>, InvalidSignature, SubSeq(good, 1, Len(good) - 1) }
    \cup { ReplaceChar(good, i, OtherChar(good[i])) : i \in FlipPositions }

(***************************************************************************)
(* State: a caller with a secret, the Signer made from it, the mapping the *)
(* caller builds, and the arguments and results of the caller's last call. *)
(* The caller alternates between building its mapping and calling the      *)
(* Signer: it looks at the results of a call and discards them before it   *)
(* goes on.                                                                *)
(***************************************************************************)
VARIABLES
    secret,      \* the secret the caller passed to NewSigner
    signer,      \* the Signer
    params,      \* the caller's map[string]any
    signature,   \* the signature argument of the last Verify call
    order,       \* the order in which the last call's range loop visited params
    canon,   \* the canonical string the last call built
    op,          \* the last call: "none", "Sign" or "Verify"
    retSig,      \* the string returned by the last Sign
    retOk,       \* the bool returned by the last Verify
    retErr,      \* the error returned by the last call
    sawFailure,  \* some call so far returned an error or false
    thread       \* the call each concurrent caller is in, and its locals

callerVars == << params, signature, order, canon, op, retSig, retOk, retErr,
                 sawFailure >>
vars == << secret, signer, callerVars, thread >>

\* the concurrent callers of one Signer
Threads == { 1, 2 }

\* a caller outside any call
Idle ==
    [ pc |-> "idle", op |-> "none", params |-> NilParams, signature |-> <<>>,
      rest |-> {}, keys |-> <<>>, sigString |-> <<>>, sig |-> <<>>,
      ok |-> FALSE, err |-> NoError ]

Init ==
    /\ secret \in Secrets
    /\ signer = NewSigner(secret)
    /\ params = NilParams
    /\ signature = <<>>
    /\ order = <<>>
    /\ canon = <<>>
    /\ op = "none"
    /\ retSig = <<>>
    /\ retOk = FALSE
    /\ retErr = NoError
    /\ sawFailure = FALSE
    /\ thread = [ t \in Threads |-> Idle ]

\* params := map[string]any{}
MakeMap ==
    /\ op = "none"
    /\ params.isNil
    /\ params' = MapParams(<<>>)
    /\ UNCHANGED << secret, signer, signature, order, canon, op, retSig,
                    retOk, retErr, sawFailure, thread >>

\* params[k] = v
Put(k, v) ==
    /\ op = "none"
    /\ ~params.isNil
    /\ params' = MapParams(MapPut(params.m, k, v))
    /\ UNCHANGED << secret, signer, signature, order, canon, op, retSig,
                    retOk, retErr, sawFailure, thread >>

\* delete(params, k)
Delete(k) ==
    /\ op = "none"
    /\ ~params.isNil
    /\ k \in DOMAIN params.m
    /\ params' = MapParams(MapDelete(params.m, k))
    /\ UNCHANGED << secret, signer, signature, order, canon, op, retSig,
                    retOk, retErr, sawFailure, thread >>

\* params = nil
DropMap ==
    /\ op = "none"
    /\ ~params.isNil
    /\ params' = NilParams
    /\ UNCHANGED << secret, signer, signature, order, canon, op, retSig,
                    retOk, retErr, sawFailure, thread >>

\* the local canon of Sign: what buildSignatureString returned, if called
SigStringOf(p, o) == IF p.isNil THEN <<>> ELSE buildSignatureString(p.m, o)

\* Sign kept its hash in the Signer and never reset it: what one call wrote
\* is still keyed into the next
CallSignKeepsHash(o) ==
    LET r == Sign(signer, params, o)
    IN  /\ op = "none"
        /\ op' = "Sign"
        /\ order' = o
        /\ canon' = SigStringOf(params, o)
        /\ signature' = <<>>
        /\ retSig' = r.sig
        /\ retOk' = FALSE
        /\ retErr' = r.err
        /\ sawFailure' = (sawFailure \/ r.err # NoError)
        /\ signer' = [secret |-> signer.secret \o SigStringOf(params, o)]
        /\ UNCHANGED << secret, params, thread >>

\* the first loop deleted the entries it skipped from the caller's map
CallSignPrunes(o) ==
    LET r == Sign(signer, params, o)
    IN  /\ op = "none"
        /\ op' = "Sign"
        /\ order' = o
        /\ canon' = SigStringOf(params, o)
        /\ signature' = <<>>
        /\ retSig' = r.sig
        /\ retOk' = FALSE
        /\ retErr' = r.err
        /\ sawFailure' = (sawFailure \/ r.err # NoError)
        /\ params' = IF params.isNil THEN params
                      ELSE MapParams([ k \in { x \in DOMAIN params.m :
                                                  ~IsEmptyValue(params.m[x]) }
                                       |-> params.m[k] ])
        /\ UNCHANGED << secret, signer, thread >>

\* sig, err := signer.Sign(params), the range loop visiting params in order o
CallSign(o) ==
    LET r == Sign(signer, params, o)
    IN  /\ op = "none"
        /\ op' = "Sign"
        /\ order' = o
        /\ canon' = SigStringOf(params, o)
        /\ signature' = <<>>
        /\ retSig' = r.sig
        /\ retOk' = FALSE
        /\ retErr' = r.err
        /\ sawFailure' = (sawFailure \/ r.err # NoError)
        /\ UNCHANGED << secret, signer, params, thread >>

\* valid, err := signer.Verify(params, sig), the range loop visiting params
\* in order o
CallVerify(sig, o) ==
    LET r == Verify(signer, params, sig, o)
    IN  /\ op = "none"
        /\ op' = "Verify"
        /\ order' = o
        /\ canon' = SigStringOf(params, o)
        /\ signature' = sig
        /\ retSig' = <<>>
        /\ retOk' = r.ok
        /\ retErr' = r.err
        /\ sawFailure' = (sawFailure \/ r.err # NoError \/ ~r.ok)
        /\ UNCHANGED << secret, signer, params, thread >>

\* the caller is done with the results of its last call
Discard ==
    /\ op # "none"
    /\ op' = "none"
    /\ signature' = <<>>
    /\ order' = <<>>
    /\ canon' = <<>>
    /\ retSig' = <<>>
    /\ retOk' = FALSE
    /\ retErr' = NoError
    /\ UNCHANGED << secret, signer, params, sawFailure, thread >>

Next ==
    \/ MakeMap
    \/ \E k \in Keys, v \in Values : Put(k, v)
    \/ \E k \in Keys : Delete(k)
    \/ DropMap
    \/ \E o \in Perms(DOMAIN params.m) : CallSign(o)
    \/ /\ op = "none"
       /\ \E o \in Perms(DOMAIN params.m) :
            \E sig \in SuppliedSignatures(Sign(signer, MapParams(params.m), o).sig) :
               CallVerify(sig, o)
    \/ Discard

Spec == Init /\ [][Next]_vars

(***************************************************************************)
(* Properties.                                                             *)
(***************************************************************************)
Called(o) == op = o /\ retErr = NoError
Orders == Perms(DOMAIN params.m)
\* the keys whose value has a non-empty text
Surviving(m) == { k \in DOMAIN m : valueToString(m[k]) # <<>> }
\* a comes before b in byte-wise order: a is a proper prefix of b, or the
\* first byte in which they differ is smaller in a
BytewiseBefore(a, b) ==
    \/ Len(a) < Len(b) /\ \A i \in 1..Len(a) : a[i] = b[i]
    \/ \E i \in 1..Min(Len(a), Len(b)) :
         /\ a[i] < b[i]
         /\ \A j \in 1..(i - 1) : a[j] = b[j]
\* the keys of S in ascending byte-wise order
Ascending(S) ==
    CHOOSE ks \in Perms(S) :
        \A i \in 1..Len(ks), j \in 1..Len(ks) : i < j => BytewiseBefore(ks[i], ks[j])
\* key=text(value) of the keys ks, an '&' between consecutive pairs
RECURSIVE Written(_, _)
Written(m, ks) ==
    IF ks = <<>> THEN <<>>
    ELSE Head(ks) \o <<61>> \o valueToString(m[Head(ks)])
         \o (IF Len(ks) > 1 THEN <<38>> \o Written(m, Tail(ks)) ELSE <<>>)

\* C1: for a fixed secret, the canonical string and the signature of a
\* mapping are the same whatever order the range loop visits its entries in.
C1_OrderIndependence ==
    Called("Sign") =>
        \A o \in Orders :
            /\ buildSignatureString(params.m, o) = canon
            /\ Sign(signer, params, o).sig = retSig

\* a Sign call whose range loop met two surviving keys out of sorted order
C1_Witness ==
    /\ Called("Sign")
    /\ Len(CollectKeys(params.m, order)) >= 2
    /\ CollectKeys(params.m, order) # SortStrings(CollectKeys(params.m, order))

\* C2: the canonical string is exactly the surviving entries written as
\* key=text(value) in strictly ascending byte-wise key order ("B" before "a"),
\* one '&' between consecutive pairs and none at either end; it is empty when
\* no entry survives; text values are written unchanged.
C2_CanonicalFormat ==
    (op # "none" /\ ~params.isNil) =>
        /\ canon = Written(params.m, Ascending(Surviving(params.m)))
        /\ Surviving(params.m) = {} => canon = <<>>
        /\ \A k \in DOMAIN params.m :
             (params.m[k].type = "string") => valueToString(params.m[k]) = params.m[k].str

\* three surviving entries, the upper-case key first, a text value holding
\* the separator characters
C2_Witness ==
    /\ Called("Sign")
    /\ Surviving(params.m) = Keys
    /\ params.m[<<98>>] = StringValue(<<38, 61>>)
    /\ SubSeq(canon, 1, 2) = <<66, 61>>
    /\ SubSeq(canon, Len(canon) - 4, Len(canon)) = <<38, 98, 61, 38, 61>>

\* C3: an entry whose value is nil or "" does not count: the mapping without
\* it has the same canonical string and the same signature, and the signature
\* made for the one verifies against the other.
C3_ExclusionRule ==
    Called("Sign") =>
        \A x \in DOMAIN params.m :
            IsEmptyValue(params.m[x]) =>
                LET q == MapParams(MapDelete(params.m, x))
                IN  \A o \in Perms(DOMAIN q.m) :
                        /\ buildSignatureString(q.m, o) = canon
                        /\ Sign(signer, q, o) = [sig |-> retSig, err |-> NoError]
                        /\ Verify(signer, q, retSig, o) = [ok |-> TRUE, err |-> NoError]

\* a signed mapping with a nil entry, a "" entry and a surviving entry
C3_Witness ==
    /\ Called("Sign")
    /\ \E x, y, z \in DOMAIN params.m :
         /\ params.m[x] = NilValue
         /\ params.m[y] = StringValue(<<>>)
         /\ z \in Surviving(params.m)

\* C4: Sign fails, with "" as signature, exactly for the nil mapping; the
\* empty non-nil mapping is signed without error, its signature is that of
\* the empty canonical string, and Verify accepts it.
C4_NilParamsOnly ==
    /\ op = "Sign" =>
         /\ (retErr # NoError) <=> params.isNil
         /\ retErr # NoError => (retSig = <<>> /\ retErr = ErrNilParams)
         /\ (~params.isNil /\ DOMAIN params.m = {}) =>
              (canon = <<>> /\ retSig = HexEncode(HmacSha256(signer.secret, <<>>)))
    /\ (op = "Verify" /\ ~params.isNil /\ DOMAIN params.m = {}
          /\ signature = HexEncode(HmacSha256(signer.secret, <<>>))) =>
         (retOk /\ retErr = NoError)

\* the empty non-nil mapping verified against its own signature
C4_Witness ==
    /\ op = "Verify"
    /\ ~params.isNil
    /\ DOMAIN params.m = {}
    /\ signature = HexEncode(HmacSha256(signer.secret, <<>>))
    /\ retOk

\* s and t have the same length and differ in exactly one character
OneCharChanged(s, t) ==
    /\ Len(s) = Len(t)
    /\ Cardinality({ i \in 1..Len(s) : s[i] # t[i] }) = 1

\* C5: for a non-nil mapping, Verify accepts the signature Sign returns for it
\* and rejects, without error, that signature with one character changed.
C5_VerificationCorrectness ==
    (op = "Verify" /\ ~params.isNil) =>
        \A o \in Orders :
            LET good == Sign(signer, params, o).sig
            IN  /\ retErr = NoError
                /\ signature = good => retOk
                /\ OneCharChanged(signature, good) => ~retOk

\* a Verify call given the signature with its last character changed
C5_Witness ==
    /\ Called("Verify")
    /\ DOMAIN params.m # {}
    /\ OneCharChanged(signature, Sign(signer, params, order).sig)
    /\ signature[64] # Sign(signer, params, order).sig[64]
    /\ ~retOk

\* C6: Verify fails exactly for the nil mapping, and then returns false; for a
\* non-nil mapping it returns true exactly when the supplied string equals,
\* byte for byte, the signature of the mapping - whatever the string's length,
\* alphabet or letter case.
C6_VerifyErrors ==
    op = "Verify" =>
        /\ (retErr # NoError) <=> params.isNil
        /\ retErr # NoError => ~retOk
        /\ ~params.isNil =>
             \A o \in Orders : retOk <=> (signature = Sign(signer, params, o).sig)

\* a Verify call given the right tag in upper-case hexadecimal
C6_Witness ==
    /\ Called("Verify")
    /\ signature = UpperCase(Sign(signer, params, order).sig)
    /\ signature # Sign(signer, params, order).sig
    /\ ~retOk

\* C7: whatever calls were made before, failed ones included, a call returns
\* what a Signer freshly made from the same secret returns for the same
\* arguments, under every iteration order.
C7_Stateless ==
    /\ op = "Sign" =>
         \A o \in Orders :
             Sign(NewSigner(secret), params, o) = [sig |-> retSig, err |-> retErr]
    /\ op = "Verify" =>
         \A o \in Orders :
             Verify(NewSigner(secret), params, signature, o) = [ok |-> retOk, err |-> retErr]

\* a successful Sign after some call that failed or returned false
C7_Witness ==
    /\ sawFailure
    /\ Called("Sign")
    /\ Surviving(params.m) # {}

\* the mapping m with the value of x replaced by v
Replaced(m, x, v) == MapPut(m, x, v)

\* C9 as stated: replacing the value of an included key by any different
\* value changes the canonical string, and the modified mapping does not
\* verify against the original signature.
C9_AnyDifferentValue ==
    Called("Sign") =>
        \A x \in Surviving(params.m), v \in Values :
            v # params.m[x] =>
                LET q == MapParams(Replaced(params.m, x, v))
                IN  /\ buildSignatureString(q.m, order) # canon
                    /\ ~Verify(signer, q, retSig, order).ok

\* C9, amended: replacing the value of an included key by a value with a
\* different text changes the canonical string and the signature, and the
\* modified mapping does not verify against the original signature.
C9_Sensitivity ==
    Called("Sign") =>
        \A x \in Surviving(params.m), v \in Values :
            valueToString(v) # valueToString(params.m[x]) =>
                LET q == MapParams(Replaced(params.m, x, v))
                IN  /\ buildSignatureString(q.m, order) # canon
                    /\ Sign(signer, q, order).sig # retSig
                    /\ Verify(signer, q, retSig, order) = [ok |-> FALSE, err |-> NoError]

\* a signed mapping with two included keys, one of them holding the text "1"
C9_Witness ==
    /\ Called("Sign")
    /\ Cardinality(Surviving(params.m)) >= 2
    /\ \E x \in DOMAIN params.m : params.m[x] = StringValue(<<49>>)

\* C10: a signature is 64 characters, each one of 0-9 or a-f.
C10_SignatureShape ==
    Called("Sign") =>
        /\ Len(retSig) = 64
        /\ \A i \in 1..Len(retSig) :
             \/ (retSig[i] >= 48 /\ retSig[i] <= 57)
             \/ (retSig[i] >= 97 /\ retSig[i] <= 102)

\* a signature with a digit and a letter in it
C10_Witness ==
    /\ Called("Sign")
    /\ Surviving(params.m) # {}
    /\ \E i, j \in 1..Len(retSig) : retSig[i] <= 57 /\ retSig[j] >= 97

(***************************************************************************)
(* Concurrent callers: each thread runs Sign or Verify on the one Signer,  *)
(* a statement or a loop iteration at a time, on a mapping of its own.     *)
(***************************************************************************)
\* the mappings and signatures the concurrent callers pass
ThreadKeys == { <<66>>, <<97>> }
ThreadValues == { StringValue(<<>>), StringValue(<<49>>) }
ThreadParams ==
    { NilParams } \cup
    UNION { { MapParams(m) : m \in [ S -> ThreadValues ] } : S \in SUBSET ThreadKeys }
ThreadSignatures(s, p) ==
    { Sign(s, p, CHOOSE o \in Perms(DOMAIN p.m) : TRUE).sig, InvalidSignature }

\* keys = append(keys, k) wrote to a slice all callers of the Signer share
AppendKeyShared(th, t, k) ==
    [ u \in DOMAIN th |-> [ th[u] EXCEPT !.keys = Append(@, k) ] ]

\* keys = append(keys, k) in the call of thread t
AppendKey(th, t, k) == [ th EXCEPT ![t].keys = Append(@, k) ]

\* thread t enters Sign(p) or Verify(p, sig): the nil check, then the
\* allocation of keys
Begin(t, o, p, sig) ==
    /\ thread[t].pc = "idle"
    /\ thread' =
         [ thread EXCEPT ![t] =
             IF p.isNil
             THEN [ Idle EXCEPT !.pc = "done", !.op = o, !.params = p,
                                !.signature = sig, !.err = ErrNilParams ]
             ELSE [ Idle EXCEPT !.pc = "range", !.op = o, !.params = p,
                                !.signature = sig, !.rest = DOMAIN p.m ] ]
    /\ UNCHANGED << secret, signer, callerVars >>

\* one iteration of the range loop: the map yields the entry of k
RangeStep(t, k) ==
    /\ thread[t].pc = "range"
    /\ k \in thread[t].rest
    /\ LET visited == [ thread EXCEPT ![t].rest = @ \ {k} ]
       IN  thread' = IF IsEmptyValue(thread[t].params.m[k]) THEN visited
                     ELSE AppendKey(visited, t, k)
    /\ UNCHANGED << secret, signer, callerVars >>

\* sort.Strings(keys), after the last iteration
SortStep(t) ==
    /\ thread[t].pc = "range"
    /\ thread[t].rest = {}
    /\ thread' = [ thread EXCEPT ![t].pc = "build", ![t].keys = SortStrings(@) ]
    /\ UNCHANGED << secret, signer, callerVars >>

\* the second and third loop: the pairs and the result string
BuildStep(t) ==
    /\ thread[t].pc = "build"
    /\ thread' =
         [ thread EXCEPT
             ![t].pc = "mac",
             ![t].sigString =
                 JoinPairs(BuildPairs(thread[t].params.m, thread[t].keys), 1, <<>>) ]
    /\ UNCHANGED << secret, signer, callerVars >>

\* the HMAC of the string under s.secret, in hexadecimal; Sign returns it
MacStep(t) ==
    /\ thread[t].pc = "mac"
    /\ thread' =
         [ thread EXCEPT
             ![t].pc = IF thread[t].op = "Sign" THEN "done" ELSE "compare",
             ![t].sig = HexEncode(HmacSha256(signer.secret, thread[t].sigString)) ]
    /\ UNCHANGED << secret, signer, callerVars >>

\* Verify compares and returns
CompareStep(t) ==
    /\ thread[t].pc = "compare"
    /\ thread' =
         [ thread EXCEPT
             ![t].pc = "done",
             ![t].ok = HmacEqual(thread[t].sig, thread[t].signature) ]
    /\ UNCHANGED << secret, signer, callerVars >>

\* the caller takes the results
Return(t) ==
    /\ thread[t].pc = "done"
    /\ thread' = [ thread EXCEPT ![t] = Idle ]
    /\ UNCHANGED << secret, signer, callerVars >>

NextThreads ==
    \E t \in Threads :
        \/ \E p \in ThreadParams : Begin(t, "Sign", p, <<>>)
        \/ /\ thread[t].pc = "idle"
           /\ \E p \in ThreadParams :
                \E sig \in ThreadSignatures(signer, p) : Begin(t, "Verify", p, sig)
        \/ \E k \in ThreadKeys : RangeStep(t, k)
        \/ SortStep(t)
        \/ BuildStep(t)
        \/ MacStep(t)
        \/ CompareStep(t)
        \/ Return(t)

SpecThreads == Init /\ [][NextThreads]_vars

\* what the call of thread t returned
Returned(t) ==
    IF thread[t].op = "Sign"
    THEN [sig |-> IF thread[t].err = NoError THEN thread[t].sig ELSE <<>>,
          err |-> thread[t].err]
    ELSE [ok |-> thread[t].ok, err |-> thread[t].err]

\* what the same call returns when it runs alone, its loop in order o
Alone(t, o) ==
    IF thread[t].op = "Sign"
    THEN Sign(NewSigner(secret), thread[t].params, o)
    ELSE Verify(NewSigner(secret), thread[t].params, thread[t].signature, o)

\* C8: however the steps of concurrent calls on one Signer interleave, each
\* call returns what it returns when run alone, and the Signer stays as made.
C8_ConcurrentUse ==
    /\ signer = NewSigner(secret)
    /\ \A t \in Threads :
         thread[t].pc = "done" =>
             \A o \in Perms(DOMAIN thread[t].params.m) : Returned(t) = Alone(t, o)

\* a call that returned after collecting two keys while the other thread was
\* inside its own range loop with a key collected
C8_Witness ==
    \E t, u \in Threads :
        /\ t # u
        /\ thread[t].pc = "done"
        /\ Len(thread[t].keys) = 2
        /\ thread[u].pc = "range"
        /\ Len(thread[u].keys) = 1

\* C11: a call of Sign or Verify, whether it succeeds or fails, leaves the
\* Signer's secret and the caller's mapping as they were: the same keys with
\* the same values, the nil and "" entries still in the mapping.
C11_NoSideEffects ==
    [][ (op = "none" /\ op' # "none") =>
            /\ signer' = signer
            /\ signer'.secret = secret
            /\ params' = params ]_vars

\* a Verify call that returned false on a mapping that still holds its nil
\* entry and its "" entry
C11_Witness ==
    /\ Called("Verify")
    /\ ~retOk
    /\ signer = NewSigner(secret)
    /\ \E x, y \in DOMAIN params.m :
         /\ params.m[x] = NilValue
         /\ params.m[y] = StringValue(<<>>)

(***************************************************************************)
(* A caller whose mapping holds values of every kind of the type switch:   *)
(* keys "B" and "a"; nil, texts, booleans, a float and integers of the     *)
(* listed and of the unlisted integer types.                               *)
(***************************************************************************)
KindKeys == { <<66>>, <<97>> }
SignedTypes == { "int", "int32", "int64", "int8" }
UnsignedTypes == { "uint", "uint32", "uint64", "uint16" }
\* nil, "", "0", "true", Status(""), false, true, 78.9, and -12, 0, 10
KindValues ==
    { NilValue, StringValue(<<>>), StringValue(<<48>>),
      StringValue(<<116, 114, 117, 101>>), NamedValue(<<>>),
      BoolValue(FALSE), BoolValue(TRUE), NumValue("float64", 789) }
    \cup { NumValue(t, n) : t \in SignedTypes, n \in { 0 - 12, 0 } }
    \cup { NumValue(t, n) : t \in UnsignedTypes, n \in { 0, 10 } }

NextKinds ==
    \/ MakeMap
    \/ \E k \in KindKeys, v \in KindValues : Put(k, v)
    \/ \E k \in KindKeys : Delete(k)
    \/ \E o \in Perms(DOMAIN params.m) : CallSign(o)
    \/ Discard

SpecKinds == Init /\ [][NextKinds]_vars

IsInteger(v) == v.type \in SignedTypes \cup UnsignedTypes
IsDigit(c) == c >= 48 /\ c <= 57
\* the number the digits ds read as in base 10
RECURSIVE DigitsValue(_)
DigitsValue(ds) ==
    IF ds = <<>> THEN 0
    ELSE 10 * DigitsValue(SubSeq(ds, 1, Len(ds) - 1)) + (ds[Len(ds)] - 48)
\* txt is n in base 10: a '-' exactly when n is negative, then at least one
\* digit, no leading zero, reading as the magnitude of n
IsDecimalOf(txt, n) ==
    LET ds == IF txt # <<>> /\ txt[1] = 45 THEN Tail(txt) ELSE txt
    IN  /\ (txt # <<>> /\ txt[1] = 45) <=> (n < 0)
        /\ ds # <<>>
        /\ \A i \in 1..Len(ds) : IsDigit(ds[i])
        /\ Len(ds) > 1 => ds[1] # 48
        /\ DigitsValue(ds) = (IF n < 0 THEN 0 - n ELSE n)
\* the keys the canonical string writes: what is between the start or an '&'
\* and the next '=' (the keys and texts here hold neither character)
RECURSIVE WrittenKeys(_, _, _)
WrittenKeys(str, i, key) ==
    IF i > Len(str) THEN {}
    ELSE IF str[i] = 61 THEN { key } \cup WrittenKeys(str, i + 1, <<>>)
    ELSE IF str[i] = 38 THEN WrittenKeys(str, i + 1, <<>>)
    ELSE WrittenKeys(str, i + 1, key \o << str[i] >>)

\* C12: an entry is left out of the canonical string exactly when its value
\* is nil or has the empty text; a zero of any integer type and false are
\* written, as key=0 and key=false; integers are written in base 10 without
\* leading zeros, with a '-' when negative; booleans as true and false.
C12_OnlyEmptyExcluded ==
    Called("Sign") =>
        /\ \A k \in DOMAIN params.m :
             LET v == params.m[k]
             IN  /\ (k \notin WrittenKeys(canon, 1, <<>>))
                      <=> (v = NilValue \/ valueToString(v) = <<>>)
                 /\ IsInteger(v) => IsDecimalOf(valueToString(v), v.num)
                 /\ (IsInteger(v) /\ v.num = 0) => valueToString(v) = <<48>>
                 /\ v = BoolValue(FALSE) => valueToString(v) = <<102, 97, 108, 115, 101>>
                 /\ v = BoolValue(TRUE) => valueToString(v) = <<116, 114, 117, 101>>
        /\ canon = Written(params.m, Ascending(Surviving(params.m)))

\* a zero of an integer type outside the type switch and false, written as
\* B=0&a=false
C12_Witness ==
    /\ Called("Sign")
    /\ DOMAIN params.m = KindKeys
    /\ params.m[<<66>>] = NumValue("uint16", 0)
    /\ params.m[<<97>>] = BoolValue(FALSE)
    /\ canon = <<66, 61, 48, 38, 97, 61, 102, 97, 108, 115, 101>>

\* the mappings with the keys of m whose values have the texts of m's values
SameTexts(m) ==
    { q \in [ DOMAIN m -> KindValues ] :
        \A k \in DOMAIN m : valueToString(q[k]) = valueToString(m[k]) }

\* C14: two mappings with the same keys whose values have, key by key, the
\* same text but possibly other types have the same canonical string and the
\* same signature, and each verifies against the signature of the other.
C14_TextOnly ==
    Called("Sign") =>
        \A q \in SameTexts(params.m) :
            LET other == Sign(signer, MapParams(q), order)
            IN  /\ buildSignatureString(q, order) = canon
                /\ other = [sig |-> retSig, err |-> NoError]
                /\ Verify(signer, MapParams(q), retSig, order) = [ok |-> TRUE, err |-> NoError]
                /\ Verify(signer, params, other.sig, order) = [ok |-> TRUE, err |-> NoError]

\* a signed mapping holding the integer 0 and the boolean true, which the
\* texts "0" and "true" stand in for
C14_Witness ==
    /\ Called("Sign")
    /\ DOMAIN params.m = KindKeys
    /\ params.m[<<66>>] = NumValue("int", 0)
    /\ params.m[<<97>>] = BoolValue(TRUE)
    /\ [ k \in KindKeys |-> IF k = <<66>> THEN StringValue(<<48>>)
                            ELSE StringValue(<<116, 114, 117, 101>>) ]
         \in SameTexts(params.m)

(***************************************************************************)
(* A caller whose keys and texts may hold the separators: keys "B", "a"    *)
(* and "B=1&a"; texts "", "1", "1=" and "1&a=1".                           *)
(***************************************************************************)
SepKeys == { <<66>>, <<97>>, <<66, 61, 49, 38, 97>> }
SepValues ==
    { StringValue(<<>>), StringValue(<<49>>), StringValue(<<49, 61>>),
      StringValue(<<49, 38, 97, 61, 49>>) }
SepMappings ==
    UNION { [ S -> SepValues ] : S \in SUBSET SepKeys }

NextSeparators ==
    \/ MakeMap
    \/ \E k \in SepKeys, v \in SepValues : Put(k, v)
    \/ \E k \in SepKeys : Delete(k)
    \/ \E o \in Perms(DOMAIN params.m) : CallSign(o)
    \/ Discard

SpecSeparators == Init /\ [][NextSeparators]_vars

\* the (key, text) pairs of the entries the canonical string writes
SurvivingPairs(m) == { << k, valueToString(m[k]) >> : k \in Surviving(m) }
AnyOrder(m) == CHOOSE o \in Perms(DOMAIN m) : TRUE
Holds(str, c) == \E i \in 1..Len(str) : str[i] = c
\* no written key holds '&' or '=', and no written text holds '&'
SeparatorFree(m) ==
    \A k \in Surviving(m) :
        /\ ~Holds(k, 38)
        /\ ~Holds(k, 61)
        /\ ~Holds(valueToString(m[k]), 38)

\* C13 as stated: mappings whose surviving (key, text) pairs differ have
\* different canonical strings, also when keys or texts hold '&' or '=', and
\* the signature of the one does not verify for the other.
C13_Injective ==
    Called("Sign") =>
        \A q \in SepMappings :
            SurvivingPairs(q) # SurvivingPairs(params.m) =>
                /\ buildSignatureString(q, AnyOrder(q)) # canon
                /\ ~Verify(signer, MapParams(q), retSig, AnyOrder(q)).ok

\* C13, amended: among the mappings whose written keys hold neither '&' nor
\* '=' and whose written texts hold no '&', mappings whose surviving
\* (key, text) pairs differ have different canonical strings, and the
\* signature of the one does not verify for the other.
C13_InjectiveWithoutSeparators ==
    (Called("Sign") /\ SeparatorFree(params.m)) =>
        \A q \in SepMappings :
            (SeparatorFree(q) /\ SurvivingPairs(q) # SurvivingPairs(params.m)) =>
                /\ buildSignatureString(q, AnyOrder(q)) # canon
                /\ Verify(signer, MapParams(q), retSig, AnyOrder(q))
                     = [ok |-> FALSE, err |-> NoError]

\* a signed mapping with two written entries, one text holding '=', and a
\* third entry, under a key with separators, that is not written
C13_Witness ==
    /\ Called("Sign")
    /\ DOMAIN params.m = SepKeys
    /\ params.m[<<66>>] = StringValue(<<49, 61>>)
    /\ params.m[<<97>>] = StringValue(<<49>>)
    /\ params.m[<<66, 61, 49, 38, 97>>] = StringValue(<<>>)
    /\ SeparatorFree(params.m)

====
